---- MODULE Spec2Model ----
(***************************************************************************)
(* A model of the dependency injection container of                        *)
(* moonwalkingbits/apollo-container (src/lib/Container.js).                *)
(*                                                                         *)
(* The container owns three maps (bindings, instances, aliases).  Every    *)
(* public method is one action.  Values carry an identity (who made them   *)
(* and a serial number), so that "the same instance" and "a fresh          *)
(* instance" are different things in the model as they are in JavaScript.  *)
(*                                                                         *)
(* A call that throws leaves the maps in the state in which the exception  *)
(* left them, and the model keeps that state.  A claim that get(i) returns *)
(* a value says that the call returns: a get(i) that throws violates it.   *)
(***************************************************************************)
EXTENDS Integers, Sequences, FiniteSets, TLC

(***************************************************************************)
(* Bounds of the model.                                                    *)
(***************************************************************************)
\* number of registrations (bindInstance, bindConstructor, bindFactory, alias)
\* made on one container
MaxRegistrations == 3

\* The engine's stack.  A resolution that comes back to an identifier whose
\* factory it is invoking calls the same factories round after round, until the
\* engine's stack is full and the engine throws a RangeError: after hundreds of
\* rounds, a number that depends on the engine and on the frames already on the
\* stack.  Here the stack has room for MaxDepth nested invocations of
\* factories by get, or for one less, which is more than a resolution that
\* ends needs: it nests one invocation for each of at most three identifiers.
MaxDepth == 4

StackDepths == {MaxDepth - 1, MaxDepth}

(***************************************************************************)
(* Identifiers and parameter names: JavaScript strings.  "" is the name    *)
(* extractParameterNames yields for an empty parameter list, "toString" is *)
(* a name every object inherits from Object.prototype.                     *)
(***************************************************************************)
Names == {"", "a", "b", "toString"}

\* keys every JavaScript object literal inherits from Object.prototype
ObjectPrototypeKeys ==
    {"constructor", "hasOwnProperty", "isPrototypeOf", "propertyIsEnumerable",
     "toLocaleString", "toString", "valueOf", "__proto__", "__defineGetter__",
     "__defineSetter__", "__lookupGetter__", "__lookupSetter__"}

(***************************************************************************)
(* Values.                                                                 *)
(***************************************************************************)
Value(kind, by, n, args) == [kind |-> kind, by |-> by, n |-> n, args |-> args]

\* the absence marker
Undefined == Value("undefined", "", 0, <<>>)

\* a primitive such as the string "V"
Lit(s) == Value("lit", s, 0, <<>>)

\* Object.prototype[name], what parameters[name] yields for an inherited key
ProtoMember(name) == Value("builtin", name, 0, <<>>)

\* the values bindInstance is called with
Instances == {Lit("V"), Lit("W")}

(***************************************************************************)
(* Maps (JavaScript Map and object literals) as functions on a subset of   *)
(* the names.                                                              *)
(***************************************************************************)
EmptyMap == [x \in {} |-> Undefined]

MapSet(m, k, v) == [x \in (DOMAIN m) \cup {k} |-> IF x = k THEN v ELSE m[x]]

MapDelete(m, k) == [x \in (DOMAIN m) \ {k} |-> m[x]]

MapHas(m, k) == k \in DOMAIN m

(***************************************************************************)
(* The user's callables.  A callable is known to the container by its      *)
(* source text (Function.prototype.toString), kept here as the sequence of *)
(* its characters, and by its prototype (the class it extends).            *)
(*                                                                         *)
(*   f0      () => "a"                                                     *)
(*   fa      a => a + "b"                                                 *)
(*   fts     function (toString, b) {                                      *)
(*               return { first: toString, second: b }; }                  *)
(*   fo      () => ({})                                                    *)
(*   fd      (a = "default value", b = "test") => a                        *)
(*   fc      (/* a = "default value" */) => "value"                        *)
(*   bfa     fa.bind(f0), whose text is function () { [native code] }      *)
(*   fn      () => "a" with its toString replaced by () => ""              *)
(*   A       class A {}                                                    *)
(*   B       class B { constructor(a) { this.a = a } }                     *)
(*   C       class C { constructor(b) { this.b = b } }                     *)
(*   D       class D { method(a) { return a + "b"; } }, on five lines      *)
(*   E       class E extends B {}                                          *)
(***************************************************************************)
Functions == {"f0", "fa", "fts"}

\* the functions of the calls that give a signature, whose text has no
\* parameter list, or whose parameter list has default values or a comment
TextFunctions == {"fa", "bfa", "fn", "fd", "fc"}

\* the factories bindFactory registers in the registry: one that returns the
\* same string on every call and one that returns a new object on every call
Factories == {"f0", "fo"}

Classes == {"A", "B", "C"}

\* the classes constructed to see where construct finds its parameter names:
\* no constructor at all, a method but no constructor, an inherited constructor
TextClasses == {"A", "D", "E"}

\* callable.toString(), character by character
toString(target) ==
    CASE target = "f0" ->
            <<"(", ")", " ", "=", ">", " ", "\"", "a", "\"">>
      [] target = "fa" ->
            <<"a", " ", "=", ">", " ", "a", " ", "+", " ", "\"", "b", "\"">>
      [] target = "fts" ->
            <<"f", "u", "n", "c", "t", "i", "o", "n", " ", "(", "t", "o", "S",
              "t", "r", "i", "n", "g", ",", " ", "b", ")", " ", "{", " ", "r",
              "e", "t", "u", "r", "n", " ", "{", " ", "f", "i", "r", "s", "t",
              ":", " ", "t", "o", "S", "t", "r", "i", "n", "g", ",", " ", "s",
              "e", "c", "o", "n", "d", ":", " ", "b", " ", "}", ";", " ", "}">>
      [] target = "fo" ->
            <<"(", ")", " ", "=", ">", " ", "(", "{", "}", ")">>
      [] target = "fd" ->
            <<"(", "a", " ", "=", " ", "\"", "d", "e", "f", "a", "u", "l",
              "t", " ", "v", "a", "l", "u", "e", "\"", ",", " ", "b", " ",
              "=", " ", "\"", "t", "e", "s", "t", "\"", ")", " ", "=", ">",
              " ", "a">>
      [] target = "fc" ->
            <<"(", "/", "*", " ", "a", " ", "=", " ", "\"", "d", "e", "f",
              "a", "u", "l", "t", " ", "v", "a", "l", "u", "e", "\"", " ",
              "*", "/", ")", " ", "=", ">", " ", "\"", "v", "a", "l", "u",
              "e", "\"">>
      [] target = "bfa" ->
            <<"f", "u", "n", "c", "t", "i", "o", "n", " ", "(", ")", " ", "{",
              " ", "[", "n", "a", "t", "i", "v", "e", " ", "c", "o", "d", "e",
              "]", " ", "}">>
      [] target = "fn" -> <<>>
      [] target = "A" ->
            <<"c", "l", "a", "s", "s", " ", "A", " ", "{", "}">>
      [] target = "B" ->
            <<"c", "l", "a", "s", "s", " ", "B", " ", "{", " ", "c", "o", "n",
              "s", "t", "r", "u", "c", "t", "o", "r", "(", "a", ")", " ", "{",
              " ", "t", "h", "i", "s", ".", "a", " ", "=", " ", "a", " ", "}",
              " ", "}">>
      [] target = "C" ->
            <<"c", "l", "a", "s", "s", " ", "C", " ", "{", " ", "c", "o", "n",
              "s", "t", "r", "u", "c", "t", "o", "r", "(", "b", ")", " ", "{",
              " ", "t", "h", "i", "s", ".", "b", " ", "=", " ", "b", " ", "}",
              " ", "}">>
      [] target = "D" ->
            <<"c", "l", "a", "s", "s", " ", "D", " ", "{", "\n", " ", " ",
              " ", " ", "m", "e", "t", "h", "o", "d", "(", "a", ")", " ", "{",
              "\n", " ", " ", " ", " ", " ", " ", " ", " ", "r", "e", "t",
              "u", "r", "n", " ", "a", " ", "+", " ", "\"", "b", "\"", ";",
              "\n", " ", " ", " ", " ", "}", "\n", "}">>
      [] target = "E" ->
            <<"c", "l", "a", "s", "s", " ", "E", " ", "e", "x", "t", "e", "n",
              "d", "s", " ", "B", " ", "{", "}">>
      [] target = "closure" ->
            <<"(", ")", " ", "=", ">", " ", "t", "h", "i", "s", ".", "c", "o",
              "n", "s", "t", "r", "u", "c", "t", "(", "c", "o", "n", "s", "t",
              "r", "u", "c", "t", "o", "r", ")">>
      [] OTHER -> <<>>

\* Object.getPrototypeOf(constructor); Function.prototype for a base class
FunctionPrototype == "Function.prototype"

getPrototypeOf(constructor) ==
    IF constructor = "E" THEN "B" ELSE FunctionPrototype

(***************************************************************************)
(* extractParameterNames (Container.js 235-274), character by character.   *)
(* The five shapes are the alternatives of one regular expression with the *)
(* flags m and s: ^ matches at the start of every line, . matches every    *)
(* character, .*? takes the fewest characters that let the rest match.     *)
(***************************************************************************)
\* the characters that end a line (U+2028 and U+2029 do as well)
LineTerminators == {"\n", "\r"}

\* the characters \s matches, as far as a string of the model can hold them:
\* the last one is U+000B, the vertical tab (\s matches U+00A0, U+FEFF, U+2028,
\* U+2029 and the other Unicode spaces as well)
WhiteSpace == {" ", "\t", "\n", "\r", "\f", ""}

\* the characters of word stand in text from position p on
HasAt(text, p, word) ==
    /\ p >= 1
    /\ p + Len(word) - 1 <= Len(text)
    /\ \A k \in 1..Len(word) : text[p + k - 1] = word[k]

\* the positions at or after from where word stands in text
Positions(text, word, from) == {i \in from..Len(text) : HasAt(text, i, word)}

Min(S) == CHOOSE x \in S : \A y \in S : x <= y

\* the positions where ^ matches: the start of the text and of every line
LineStarts(text) ==
    {1} \cup {p \in 2..(Len(text) + 1) : text[p - 1] \in LineTerminators}

\* the characters strictly between positions i and j
Between(text, i, j) == [k \in 1..(j - i - 1) |-> text[i + k]]

\* the words of the shapes
ClassWord == <<"c", "l", "a", "s", "s", " ">>

ConstructorWord == <<"c", "o", "n", "s", "t", "r", "u", "c", "t", "o", "r", "(">>

AsyncWord == <<"a", "s", "y", "n", "c", " ">>

FunctionWord == <<"f", "u", "n", "c", "t", "i", "o", "n">>

Arrow == <<"=", ">">>

SpaceArrow == <<" ", "=", ">">>

\* an alternative that does not match: <<matched, captured group>>
NoGroup == <<FALSE, <<>>>>

\* the group that opens at the first "(" among starts and ends before the
\* next ")": "\((.*?)\)"
GroupFrom(text, starts) ==
    IF starts = {} THEN NoGroup
    ELSE LET open == Min(starts)
         IN  <<TRUE, Between(text, open, Min(Positions(text, <<")">>, open + 1)))>>

\* the positions at or after from of a "(" that a ")" follows
ParenStarts(text, from) ==
    {q \in Positions(text, <<"(">>, from) : Positions(text, <<")">>, q + 1) # {}}

\* "class .*?constructor\((.*?)\)" at position p: the characters "class ", and
\* the first "constructor(" after them that a ")" follows, whatever stands
\* before the word constructor
ClassConstructorMatch(text, p) ==
    IF ~HasAt(text, p, ClassWord) THEN NoGroup
    ELSE GroupFrom(text, {q + 11 : q \in
            {w \in Positions(text, ConstructorWord, p + 6) :
                Positions(text, <<")">>, w + 12) # {}}})

\* /^class .*?constructor\((.*?)\)/ms.test(text), Container.js 327
HasExplicitConstructor(text) ==
    \E p \in LineStarts(text) : ClassConstructorMatch(text, p)[1]

\* ".*?\((.*?)\)" at position p: the first "(" that a ")" follows
MethodMatch(text, p) == GroupFrom(text, ParenStarts(text, p))

\* the positions at or after from where " ?=>" matches
ArrowEnds(text, from) ==
    {e \in from..Len(text) : HasAt(text, e, SpaceArrow) \/ HasAt(text, e, Arrow)}

\* "(?:async )?(.*?) ?=>" at position p
ArrowMatch(text, p) ==
    LET from == IF HasAt(text, p, AsyncWord) /\ ArrowEnds(text, p + 6) # {}
                THEN p + 6 ELSE p
    IN  IF ArrowEnds(text, from) = {} THEN NoGroup
        ELSE <<TRUE, Between(text, from - 1, Min(ArrowEnds(text, from)))>>

\* "\((.*?)\) ?=>" at position p
ParenthesizedArrowMatch(text, p) ==
    LET ends == {e \in (p + 1)..Len(text) :
                    /\ text[e] = ")"
                    /\ HasAt(text, e + 1, SpaceArrow) \/ HasAt(text, e + 1, Arrow)}
    IN  IF ~HasAt(text, p, <<"(">>) \/ ends = {} THEN NoGroup
        ELSE <<TRUE, Between(text, p, Min(ends))>>

\* "function.*?\((.*?)\)" at position p
FunctionMatch(text, p) ==
    IF ~HasAt(text, p, FunctionWord) THEN NoGroup
    ELSE GroupFrom(text, ParenStarts(text, p + 8))

\* the alternation at position p: the first alternative that matches there
MatchAt(text, p) ==
    IF ClassConstructorMatch(text, p)[1] THEN ClassConstructorMatch(text, p)
    ELSE IF MethodMatch(text, p)[1] THEN MethodMatch(text, p)
    ELSE IF ArrowMatch(text, p)[1] THEN ArrowMatch(text, p)
    ELSE IF ParenthesizedArrowMatch(text, p)[1] THEN ParenthesizedArrowMatch(text, p)
    ELSE FunctionMatch(text, p)

\* parameterMatch and parameterString, Container.js 252-260: <<matched, the
\* group captured>> of the match at the first line start that has one
ParameterMatch(text) ==
    LET starts == {p \in LineStarts(text) : MatchAt(text, p)[1]}
    IN  IF starts = {} THEN NoGroup ELSE MatchAt(text, Min(starts))

\* the end of the line position i is on: the position of the next line
\* terminator, or the one after the last character
EndOfLine(s, i) ==
    Min({j \in i..Len(s) : s[j] \in LineTerminators} \cup {Len(s) + 1})

RECURSIVE RemoveLineComments(_, _)
\* .replace(/\/\/.*$/gm, ""), Container.js 264, from position i on: every "//"
\* goes with the rest of its line
RemoveLineComments(s, i) ==
    IF i > Len(s) THEN <<>>
    ELSE IF HasAt(s, i, <<"/", "/">>) THEN RemoveLineComments(s, EndOfLine(s, i))
    ELSE <<s[i]>> \o RemoveLineComments(s, i + 1)

\* the positions where the block comment that opens at i can close: a "*/" on
\* the same line
BlockCommentEnds(s, i) ==
    {j \in Positions(s, <<"*", "/">>, i + 2) : j <= EndOfLine(s, i)}

RECURSIVE RemoveBlockComments(_, _)
\* .replace(/\/\*.*?\*\//gm, ""), Container.js 266, from position i on
RemoveBlockComments(s, i) ==
    IF i > Len(s) THEN <<>>
    ELSE IF HasAt(s, i, <<"/", "*">>) /\ BlockCommentEnds(s, i) # {}
    THEN RemoveBlockComments(s, Min(BlockCommentEnds(s, i)) + 2)
    ELSE <<s[i]>> \o RemoveBlockComments(s, i + 1)

\* .replace(/\s/gm, ""), Container.js 268
IsNoWhiteSpace(c) == c \notin WhiteSpace

RemoveWhiteSpace(s) == SelectSeq(s, IsNoWhiteSpace)

\* .replace(/^\(|\)$/, ""), Container.js 270: without the flag g one match is
\* replaced, the "(" at the start if there is one, the ")" at the end otherwise
RemoveEnclosingParenthesis(s) ==
    IF s = <<>> THEN s
    ELSE IF s[1] = "(" THEN Tail(s)
    ELSE IF s[Len(s)] = ")" THEN SubSeq(s, 1, Len(s) - 1)
    ELSE s

RECURSIVE StripDefaults(_, _)
\* .replace(/=.*?(?=,|$)/g, ""), Container.js 272, from position i on: every
\* "=", that of "=>" too, goes with what follows it up to the next comma
StripDefaults(s, i) ==
    IF i > Len(s) THEN <<>>
    ELSE IF s[i] = "="
    THEN StripDefaults(s, Min(Positions(s, <<",">>, i + 1) \cup {Len(s) + 1}))
    ELSE <<s[i]>> \o StripDefaults(s, i + 1)

RECURSIVE SplitOnComma(_, _, _)
\* .split(","), Container.js 273, from position i on, current being the
\* characters of the name read so far: the empty string splits into one name ""
SplitOnComma(s, i, current) ==
    IF i > Len(s) THEN <<current>>
    ELSE IF s[i] = "," THEN <<current>> \o SplitOnComma(s, i + 1, "")
    ELSE SplitOnComma(s, i + 1, current \o s[i])

\* the replacements of Container.js 262-272 on the captured group
CleanParameterString(parameterString) ==
    StripDefaults(
        RemoveEnclosingParenthesis(
            RemoveWhiteSpace(
                RemoveBlockComments(RemoveLineComments(parameterString, 1), 1))),
        1)

\* an extractParameterNames that cleans and splits the empty string when nothing
\* matched
extractParameterNamesOfNothing(text) ==
    SplitOnComma(CleanParameterString(ParameterMatch(text)[2]), 1, "")

\* extractParameterNames(target), target known by its text
extractParameterNames(text) ==
    LET parameterMatch == ParameterMatch(text)
    IN  IF ~parameterMatch[1] THEN <<>>
        ELSE SplitOnComma(CleanParameterString(parameterMatch[2]), 1, "")

RECURSIVE firstExplicitConstructorFrom(_, _)
\* the loop of firstExplicitConstructor (Container.js 326-334)
firstExplicitConstructorFrom(parentConstructor, constructor) ==
    IF parentConstructor = FunctionPrototype THEN constructor
    ELSE IF HasExplicitConstructor(toString(parentConstructor)) THEN parentConstructor
    ELSE firstExplicitConstructorFrom(getPrototypeOf(parentConstructor), constructor)

firstExplicitConstructor(constructor) ==
    firstExplicitConstructorFrom(constructor, constructor)

\* every callable the calls of the model name, and the arrow function of
\* bindConstructor
Callables ==
    Functions \cup TextFunctions \cup Factories \cup Classes \cup TextClasses
        \cup {"closure"}

\* this.extractParameterNames(target), Container.js 104 and 123, of every
\* callable: the text of a callable never changes, so it is read once
ParameterNames ==
    [target \in Callables |-> extractParameterNames(toString(target))]

\* this.firstExplicitConstructor(constructor), Container.js 104, of every
\* callable
ExplicitConstructor ==
    [constructor \in Callables |-> firstExplicitConstructor(constructor)]

(***************************************************************************)
(* The container.                                                          *)
(*                                                                         *)
(*   bindings   Map identifier -> {factory, singleton}   (Container.js 33) *)
(*   instances  Map identifier -> value                  (Container.js 41) *)
(*   aliases    Map alias -> identifier                  (Container.js 49) *)
(*                                                                         *)
(* and what the model records about a run:                                 *)
(*                                                                         *)
(*   last           the most recent call of a public method, its outcome,  *)
(*                  the identifiers whose factories it invoked and the     *)
(*                  calls it made, each with the arguments it passed       *)
(*   registered     the identifiers ever registered                        *)
(*   registrations  how many registrations were made                       *)
(***************************************************************************)
VARIABLES bindings, instances, aliases, last, registered, registrations

vars == <<bindings, instances, aliases, last, registered, registrations>>

(***************************************************************************)
(* Object identity.  A new object gets the least serial number no object   *)
(* the state still holds has: an object nothing refers to any more cannot  *)
(* be compared with anything, so its number is free again.                 *)
(***************************************************************************)
RECURSIVE Serials(_)
\* the serial numbers of a value and of the values it was made from
Serials(v) ==
    (IF v.n = 0 THEN {} ELSE {v.n})
        \cup UNION {Serials(v.args[k]) : k \in DOMAIN v.args}

\* the least serial number not in use
FreshSerial(used) == CHOOSE n \in 1..(Cardinality(used) + 1) :
                        /\ n \notin used
                        /\ \A m \in 1..(n - 1) : m \in used

\* the part of the state a resolution reads and writes: the two maps, the serial
\* numbers in use, the identifiers whose factories it has invoked, in order, and
\* the calls of callables it has made, in order, each with its arguments
Store(b, i, used, invoked) ==
    [bindings |-> b, instances |-> i, used |-> used, invoked |-> invoked,
     passed |-> <<>>]

\* the outcome of a call: the state it leaves, how it ended, what it returned
Outcome(st, status, value) == [st |-> st, status |-> status, value |-> value]

\* a factory as a binding stores it: the user's function, or the arrow function
\* bindConstructor wraps around the class
UserFactory(f) == [kind |-> "function", target |-> f]

ConstructorFactory(c) == [kind |-> "closure", target |-> c]

\* no signature given to invoke, no callable in a call
Null == [kind |-> "null", target |-> ""]

\* the callable whose text is that of the factory
FactorySource(factory) ==
    IF factory.kind = "closure" THEN "closure" ELSE factory.target

\* a has that also finds the targets of the aliases
hasKeyOrTarget(st, identifier) ==
    \/ MapHas(st.bindings, identifier)
    \/ MapHas(st.instances, identifier)
    \/ MapHas(aliases, identifier)
    \/ \E a \in DOMAIN aliases : aliases[a] = identifier

\* has(identifier), Container.js 59-63
has(st, identifier) ==
    \/ MapHas(st.bindings, identifier)
    \/ MapHas(st.instances, identifier)
    \/ MapHas(aliases, identifier)

\* resolveIdentifier(identifier), Container.js 212-214: a || b yields b when a is
\* undefined or the empty string
resolveIdentifier(identifier) ==
    IF MapHas(aliases, identifier) /\ aliases[identifier] # ""
    THEN aliases[identifier]
    ELSE identifier

\* a createSingletonFromBinding that forgets to delete the binding
createSingletonKeepingBinding(st, identifier, value) ==
    [st EXCEPT !.instances = MapSet(st.instances, identifier, value)]

\* a createSingletonFromBinding that deletes the binding and stores nothing
createSingletonDroppingValue(st, identifier, value) ==
    [st EXCEPT !.bindings = MapDelete(st.bindings, identifier)]

\* createSingletonFromBinding(identifier, value), Container.js 223-226
createSingletonFromBinding(st, identifier, value) ==
    [st EXCEPT !.instances = MapSet(st.instances, identifier, value),
               !.bindings = MapDelete(st.bindings, identifier)]

\* name in parameters, Container.js 297: own keys and inherited ones
In(name, parameters) == MapHas(parameters, name) \/ name \in ObjectPrototypeKeys

\* parameters[name], Container.js 298
Lookup(parameters, name) ==
    IF MapHas(parameters, name) THEN parameters[name] ELSE ProtoMember(name)

\* a new object: Reflect.construct, Container.js 102
Create(st, kind, by, args) ==
    LET n == FreshSerial(st.used)
    IN  Outcome([st EXCEPT !.used = @ \cup {n}], "ok", Value(kind, by, n, args))

\* the argument at position k of a call, undefined past the last one
Arg(args, k) == IF k \in DOMAIN args THEN args[k] ELSE Undefined

\* the fields an object of the class keeps of the arguments of its constructor:
\* B and C store their parameter, E hands it to the constructor of B, the
\* implicit constructors of A and D drop what they are given
Fields(constructor, args) ==
    IF constructor \in {"B", "C", "E"} THEN <<Arg(args, 1)>> ELSE <<>>

\* String(value), as the + of a string renders it: a member of
\* Object.prototype is a native function under its own name, but for
\* constructor, which is the function Object, and __proto__, which is
\* Object.prototype itself, an object
ToStr(v) ==
    CASE v.kind = "undefined" -> "undefined"
      [] v.kind \in {"lit", "boolean"} -> v.by
      [] v.kind = "builtin" /\ v.by = "__proto__" -> "[object Object]"
      [] v.kind = "builtin" /\ v.by = "constructor" ->
            "function Object() { [native code] }"
      [] v.kind = "builtin" -> "function " \o v.by \o "() { [native code] }"
      [] OTHER -> "[object Object]"

\* what the body of a user's function returns for its arguments, n being the
\* identity of the object it makes, when it makes one
Body(func, args, n) ==
    CASE func \in {"f0", "fn"} -> Lit("a")
      [] func \in {"fa", "bfa"} -> Lit(ToStr(Arg(args, 1)) \o "b")
      [] func = "fd" ->
            IF Arg(args, 1) = Undefined THEN Lit("default value") ELSE Arg(args, 1)
      [] func = "fc" -> Lit("value")
      [] func = "fts" -> Value("result", func, n, <<Arg(args, 1), Arg(args, 2)>>)
      [] OTHER -> Value("result", func, n, <<>>)

\* the state and the value a call leaves that returns value
Returning(st, value) ==
    Outcome([st EXCEPT !.used = @ \cup Serials(value)], "ok", value)

\* the call of a user's function: it returns what its body returns
Return(st, func, args) == Returning(st, Body(func, args, FreshSerial(st.used)))

\* a class as Reflect.construct calls it
ClassOf(constructor) == [kind |-> "class", target |-> constructor]

\* the container is about to call callable with args
Calling(st, callable, args) ==
    [st EXCEPT !.passed = Append(@, [callable |-> callable, args |-> args])]

\* a get that looks for the binding before the instance
hasInstanceUnlessBound(st, identifier) ==
    MapHas(st.instances, identifier) /\ ~MapHas(st.bindings, identifier)

\* a get that never looks for the instance
hasInstanceNever(st, identifier) == FALSE

\* this.instances.has(identifier), Container.js 79
hasInstance(st, identifier) == MapHas(st.instances, identifier)

\* the singleton flag get reads from the binding, Container.js 83 and 86
isSingleton(binding) == binding.singleton

RECURSIVE get(_, _, _), invoke(_, _, _, _, _), construct(_, _, _, _),
          resolveParameters(_, _, _, _), apply(_, _, _, _)

\* Container.js 86-90: r is the outcome of this.invoke(factory); when it is a
\* value, get stores it for a singleton binding and returns it
Made(r, binding, id) ==
    IF r.status # "ok" THEN r
    ELSE IF isSingleton(binding)
    THEN Outcome(createSingletonFromBinding([r.st EXCEPT !.invoked = Append(@, id)],
                                            id, r.value),
                 "ok", r.value)
    ELSE Outcome([r.st EXCEPT !.invoked = Append(@, id)], "ok", r.value)

\* get(identifier), Container.js 72-91.  room is the number of nested
\* invocations of factories the engine's stack still has room for: without
\* room the engine throws a RangeError (stack overflow).
get(st, identifier, room) ==
    IF ~has(st, identifier) THEN Outcome(st, "UnknownIdentifier", Undefined)
    ELSE LET id == resolveIdentifier(identifier)
         IN  IF hasInstance(st, id) THEN Outcome(st, "ok", st.instances[id])
             ELSE IF ~MapHas(st.bindings, id) THEN Outcome(st, "TypeError", Undefined)
             ELSE IF room = 0 THEN Outcome(st, "RangeError", Undefined)
             ELSE Made(invoke(st, st.bindings[id].factory, EmptyMap, Null, room - 1),
                       st.bindings[id], id)

\* func.apply(func, args), Container.js 123: the arrow function of
\* a factory of bindConstructor that hands explicit parameters on to construct
applyWithParameters(st, func, args, room) ==
    IF func.kind = "closure"
    THEN construct(st, func.target, [x \in {"a"} |-> Lit("W")], room)
    ELSE Return(st, func.target, args)

\* r is the outcome of this.resolveParameters(...): an exception ends the call,
\* arguments are passed on to apply
Applied(r, func, room) ==
    IF r.status # "ok" THEN r
    ELSE apply(Calling(r.st, func, r.value), func, r.value, room)

\* r is the outcome of this.resolveParameters(...): an exception ends the call,
\* arguments are passed on to Reflect.construct
Constructed(r, constructor) ==
    IF r.status # "ok" THEN r
    ELSE Create(Calling(r.st, ClassOf(constructor), r.value), "object",
                constructor, Fields(constructor, r.value))

\* the arrow function of bindConstructor constructs the class (Container.js
\* 147), a user's function returns what its body returns
apply(st, func, args, room) ==
    IF func.kind = "closure" THEN construct(st, func.target, EmptyMap, room)
    ELSE Return(st, func.target, args)

\* an invoke that reads the parameter names of func whatever the signature
invokeIgnoringSignature(st, func, parameters, signature, room) ==
    Applied(resolveParameters(st, ParameterNames[FactorySource(func)],
                              parameters, room),
            func, room)

\* invoke(func, parameters, signature), Container.js 122-124
invoke(st, func, parameters, signature, room) ==
    Applied(resolveParameters(
                st,
                ParameterNames[FactorySource(IF signature = Null THEN func
                                             ELSE signature)],
                parameters, room),
            func, room)

\* construct(constructor, parameters), Container.js 101-106
construct(st, constructor, parameters, room) ==
    Constructed(resolveParameters(st, ParameterNames[ExplicitConstructor[constructor]],
                                  parameters, room),
                constructor)

\* a resolveParameter that asks the container before the explicit parameters
resolveParameterContainerFirst(st, name, parameters, room) ==
    IF has(st, name) THEN get(st, name, room)
    ELSE IF In(name, parameters) THEN Outcome(st, "ok", Lookup(parameters, name))
    ELSE Outcome(st, "ok", Undefined)

\* resolveParameter(name, parameters), Container.js 296-314
resolveParameter(st, name, parameters, room) ==
    IF In(name, parameters) THEN Outcome(st, "ok", Lookup(parameters, name))
    ELSE IF has(st, name) THEN get(st, name, room)
    ELSE Outcome(st, "ok", Undefined)

\* the value of the first name before the values of the others
Prepended(value, rest) ==
    IF rest.status # "ok" THEN rest
    ELSE Outcome(rest.st, "ok", <<value>> \o rest.value)

\* the map of Container.js 285 after its first element: first is the outcome of
\* resolveParameter for the first name, parameterNames are the names left
Mapped(first, parameterNames, parameters, room) ==
    IF first.status # "ok" THEN first
    ELSE Prepended(first.value,
                   resolveParameters(first.st, parameterNames, parameters, room))

\* resolveParameters(parameterNames, parameters), Container.js 284-286: in order,
\* and an exception ends the map
resolveParameters(st, parameterNames, parameters, room) ==
    IF parameterNames = <<>> THEN Outcome(st, "ok", <<>>)
    ELSE Mapped(resolveParameter(st, Head(parameterNames), parameters, room),
                Tail(parameterNames), parameters, room)

(***************************************************************************)
(* The record of a call of a public method: the method, its arguments, how *)
(* it ended, what it returned, the identifiers whose factories it invoked  *)
(* and the calls it made of the user's callables.                          *)
(***************************************************************************)
Call(op, id, arg, callable, singleton, params, signature, status, value, invoked) ==
    [op |-> op, id |-> id, arg |-> arg, callable |-> callable,
     singleton |-> singleton, params |-> params, signature |-> signature,
     status |-> status, value |-> value, invoked |-> invoked, passed |-> <<>>]

True == Value("boolean", "true", 0, <<>>)

False == Value("boolean", "false", 0, <<>>)

\* the explicit parameters construct and invoke are called with
ParameterMaps ==
    {EmptyMap, [x \in {"a"} |-> Lit("W")], [x \in {"a", "toString"} |-> Undefined]}

\* how often key occurs in a sequence of identifiers
Occurrences(seq, key) == Cardinality({k \in DOMAIN seq : seq[k] = key})

\* the serial numbers of the objects the state holds
Held == UNION {Serials(instances[k]) : k \in DOMAIN instances}
            \cup Serials(last.value)
            \cup UNION {UNION {Serials(last.passed[k].args[j]) :
                                j \in DOMAIN last.passed[k].args} :
                            k \in DOMAIN last.passed}

\* the container as the resolution operators see it
Current == Store(bindings, instances, Held, <<>>)

\* the container as has sees it: the two maps, and nothing of the objects made
Registry == Store(bindings, instances, {}, <<>>)

\* a call of alias that never returns ends the program
Running == last.status # "diverges"

Init ==
    /\ bindings = EmptyMap
    /\ instances = EmptyMap
    /\ aliases = EmptyMap
    /\ last = Call("new", "", "", Null, FALSE, EmptyMap, Null, "ok", Undefined, <<>>)
    /\ registered = {}
    /\ registrations = 0

\* the stacks a call is tried on, r being its outcome on the deepest: how much
\* room there is matters only to a call that fills the stack
Rooms(r) == IF r.status = "RangeError" THEN StackDepths ELSE {MaxDepth}

\* a resolution ended with outcome r: the maps it leaves and the record of the call
Resolved(r, op, id, callable, params, signature) ==
    /\ bindings' = r.st.bindings
    /\ instances' = r.st.instances
    /\ last' = [Call(op, id, "", callable, FALSE, params, signature, r.status,
                     r.value, r.st.invoked) EXCEPT !.passed = r.st.passed]
    /\ UNCHANGED <<aliases, registered, registrations>>

\* container.has(identifier)
Has(identifier) ==
    /\ Running
    /\ last' = Call("has", identifier, "", Null, FALSE, EmptyMap, Null, "ok",
                    IF has(Registry, identifier) THEN True ELSE False, <<>>)
    /\ UNCHANGED <<bindings, instances, aliases, registered, registrations>>

\* container.get(identifier)
Get(identifier) ==
    /\ Running
    /\ LET r == get(Current, identifier, MaxDepth)
       IN  \E room \in Rooms(r) :
                Resolved(IF room = MaxDepth THEN r ELSE get(Current, identifier, room),
                         "get", identifier, Null, EmptyMap, Null)

\* container.construct(constructor, parameters)
Construct(constructor, parameters) ==
    /\ Running
    /\ LET r == construct(Current, constructor, parameters, MaxDepth)
       IN  \E room \in Rooms(r) :
                Resolved(IF room = MaxDepth THEN r
                         ELSE construct(Current, constructor, parameters, room),
                         "construct", "", ConstructorFactory(constructor),
                         parameters, Null)

\* container.invoke(func, parameters, signature)
Invoke(func, parameters, signature) ==
    /\ Running
    /\ LET r == invoke(Current, UserFactory(func), parameters, signature, MaxDepth)
       IN  \E room \in Rooms(r) :
                Resolved(IF room = MaxDepth THEN r
                         ELSE invoke(Current, UserFactory(func), parameters,
                                     signature, room),
                         "invoke", "", UserFactory(func), parameters, signature)

\* container.bindInstance(identifier, instance), Container.js 133-135
BindInstance(identifier, instance) ==
    /\ Running
    /\ registrations < MaxRegistrations
    /\ instances' = MapSet(instances, identifier, instance)
    /\ last' = Call("bindInstance", identifier, "", Null, FALSE, EmptyMap, Null,
                    "ok", instance, <<>>)
    /\ registered' = registered \cup {identifier}
    /\ registrations' = registrations + 1
    /\ UNCHANGED <<bindings, aliases>>

\* the binding bindConstructor and bindFactory store
Binding(factory, singleton) == [factory |-> factory, singleton |-> singleton]

\* a bindConstructor and bindFactory that drop the instance stored under the
\* identifier, so that the new binding takes effect
BindDroppingInstance(op, identifier, factory, singleton) ==
    /\ Running
    /\ registrations < MaxRegistrations
    /\ bindings' = MapSet(bindings, identifier, Binding(factory, singleton))
    /\ instances' = MapDelete(instances, identifier)
    /\ last' = Call(op, identifier, "", factory, singleton, EmptyMap, Null, "ok",
                    Undefined, <<>>)
    /\ registered' = registered \cup {identifier}
    /\ registrations' = registrations + 1
    /\ UNCHANGED aliases

\* what bindConstructor and bindFactory do with the factory they store
Bind(op, identifier, factory, singleton) ==
    /\ Running
    /\ registrations < MaxRegistrations
    /\ bindings' = MapSet(bindings, identifier, Binding(factory, singleton))
    /\ last' = Call(op, identifier, "", factory, singleton, EmptyMap, Null, "ok",
                    Undefined, <<>>)
    /\ registered' = registered \cup {identifier}
    /\ registrations' = registrations + 1
    /\ UNCHANGED <<instances, aliases>>

\* container.bindConstructor(identifier, constructor, singleton), Container.js 145-150
BindConstructor(identifier, constructor, singleton) ==
    Bind("bindConstructor", identifier, ConstructorFactory(constructor), singleton)

\* container.bindFactory(identifier, factory, singleton), Container.js 160-165
BindFactory(identifier, factory, singleton) ==
    Bind("bindFactory", identifier, UserFactory(factory), singleton)

\* how makeSingleton(identifier) ends: this.bindings.get(identifier).singleton
\* throws a TypeError when the resolved identifier has no binding
makeSingletonStatus(identifier) ==
    IF ~has(Registry, identifier) THEN "UnknownIdentifier"
    ELSE IF MapHas(instances, resolveIdentifier(identifier)) THEN "ok"
    ELSE IF ~MapHas(bindings, resolveIdentifier(identifier)) THEN "TypeError"
    ELSE "ok"

\* a makeSingleton that does not look for an instance first
makeSingletonRegardless(identifier) ==
    LET id == resolveIdentifier(identifier)
    IN  IF has(Registry, identifier) /\ MapHas(bindings, id)
        THEN [bindings EXCEPT ![id].singleton = TRUE]
        ELSE bindings

\* the bindings makeSingleton(identifier) leaves
makeSingleton(identifier) ==
    LET id == resolveIdentifier(identifier)
    IN  IF /\ has(Registry, identifier)
           /\ ~MapHas(instances, id)
           /\ MapHas(bindings, id)
        THEN [bindings EXCEPT ![id].singleton = TRUE]
        ELSE bindings

\* whether identifier resolved to a singleton binding before the call
singletonBefore(identifier) ==
    /\ MapHas(bindings, resolveIdentifier(identifier))
    /\ bindings[resolveIdentifier(identifier)].singleton

\* container.makeSingleton(identifier), Container.js 173-185
MakeSingleton(identifier) ==
    /\ Running
    /\ bindings' = makeSingleton(identifier)
    /\ last' = Call("makeSingleton", identifier, "", Null,
                    singletonBefore(identifier), EmptyMap, Null,
                    makeSingletonStatus(identifier), Undefined, <<>>)
    /\ UNCHANGED <<instances, aliases, registered, registrations>>

RECURSIVE AliasTarget(_, _)
\* the loop of alias, Container.js 195-197: the identifier it ends on, or
\* <<FALSE, _>> when it comes back to an identifier it has seen and never ends
AliasTarget(identifier, seen) ==
    IF ~MapHas(aliases, identifier) THEN <<TRUE, identifier>>
    ELSE IF identifier \in seen THEN <<FALSE, identifier>>
    ELSE AliasTarget(aliases[identifier], seen \cup {identifier})

\* container.alias(identifier, alias), Container.js 194-200
Alias(identifier, alias) ==
    LET target == AliasTarget(identifier, {})
    IN  /\ Running
        /\ registrations < MaxRegistrations
        /\ aliases' = IF target[1] THEN MapSet(aliases, alias, target[2]) ELSE aliases
        /\ last' = Call("alias", identifier, alias, Null, FALSE, EmptyMap, Null,
                        IF target[1] THEN "ok" ELSE "diverges", Undefined, <<>>)
        /\ registered' = IF target[1] THEN registered \cup {alias} ELSE registered
        /\ registrations' = registrations + 1
        /\ UNCHANGED <<bindings, instances>>

(***************************************************************************)
(* The registry: registrations, aliases and get, over three identifiers.   *)
(***************************************************************************)
Identifiers == {"", "a", "b"}

Next ==
    \/ \E identifier \in Identifiers : Has(identifier)
    \/ \E identifier \in Identifiers : Get(identifier)
    \/ \E identifier \in Identifiers, instance \in Instances :
            BindInstance(identifier, instance)
    \/ \E identifier \in Identifiers, singleton \in BOOLEAN :
            BindConstructor(identifier, "B", singleton)
    \/ \E identifier \in Identifiers, factory \in Factories, singleton \in BOOLEAN :
            BindFactory(identifier, factory, singleton)
    \/ \E identifier \in Identifiers : MakeSingleton(identifier)
    \/ \E identifier \in Identifiers, alias \in Identifiers : Alias(identifier, alias)

Spec == Init /\ [][Next]_vars

(***************************************************************************)
(* The wiring: construct and invoke on a container filled by registrations *)
(* under the parameter names of the callables.                             *)
(***************************************************************************)
NextWire ==
    \/ \E identifier \in Names : Get(identifier)
    \/ \E constructor \in Classes, parameters \in ParameterMaps :
            Construct(constructor, parameters)
    \/ \E func \in Functions, parameters \in ParameterMaps :
            Invoke(func, parameters, Null)
    \/ \E identifier \in Names : BindInstance(identifier, Lit("V"))
    \/ \E singleton \in BOOLEAN : BindConstructor("a", "A", singleton)
    \/ \E singleton \in BOOLEAN : BindConstructor("b", "B", singleton)
    \/ \E singleton \in BOOLEAN : BindFactory("", "f0", singleton)

SpecWire == Init /\ [][NextWire]_vars

(***************************************************************************)
(* The signatures: invoke with and without a signature, and callables      *)
(* whose text gives extractParameterNames nothing to match.                *)
(***************************************************************************)
NextText ==
    \/ \E identifier \in Identifiers : Get(identifier)
    \/ \E constructor \in TextClasses, parameters \in ParameterMaps :
            Construct(constructor, parameters)
    \/ \E func \in TextFunctions, parameters \in ParameterMaps :
            Invoke(func, parameters, Null)
    \/ \E parameters \in ParameterMaps :
            Invoke("bfa", parameters, UserFactory("fa"))
    \/ \E identifier \in {"", "a"}, instance \in Instances :
            BindInstance(identifier, instance)
    \/ \E singleton \in BOOLEAN : BindConstructor("a", "A", singleton)
    \/ \E identifier \in {"a", "b"}, singleton \in BOOLEAN :
            BindFactory(identifier, "fn", singleton)

SpecText == Init /\ [][NextText]_vars

(***************************************************************************)
(* The claims.  A step of the container is recognised by the record of the *)
(* call it leaves in last'; last is the call before it.                    *)
(***************************************************************************)
\* the step is a call of get(i)
GetOf(i) == last'.op = "get" /\ last'.id = i

\* the call a call of a public method made last: that of the callable of
\* construct and invoke, for get that of the factory or of the class behind it
LastCall(call) == call.passed[Len(call.passed)]

\* the arguments of that call, none when no call was made
Arguments(call) == IF call.passed = <<>> THEN <<>> ELSE LastCall(call).args

\* the arguments the step passed to the callable it called last
Passed == Arguments(last')

\* value is what the factory of a binding made in the step: an object of the
\* class for bindConstructor, what the body of the function returns for the
\* arguments it was passed for bindFactory
MadeBy(value, factory) ==
    IF factory.kind = "closure"
    THEN value.kind = "object" /\ value.by = factory.target
    ELSE /\ last'.passed # <<>>
         /\ LastCall(last').callable = factory
         /\ value = Body(factory.target, Passed, value.n)

\* the callable whose text extractParameterNames reads: the first explicit
\* constructor for a class, the function itself otherwise
CallableSource(factory) ==
    IF factory.kind = "closure"
    THEN ExplicitConstructor[factory.target]
    ELSE factory.target

\* the text has a parameter list and the list, cleaned of comments and white
\* space, is empty: () => v, function f() {}, class T { constructor() {} }
ParameterLess ==
    {target \in Callables :
        /\ ParameterMatch(toString(target))[1]
        /\ CleanParameterString(ParameterMatch(toString(target))[2]) = <<>>}

DeclaresNoParameter(target) == target \in ParameterLess

\* the callable behind the factory depends on nothing the container holds: it
\* declares no parameter, or none under a name the container knows, so that
\* no dependency of it can be missing or come back to it
Independent(factory) ==
    \/ DeclaresNoParameter(CallableSource(factory))
    \/ \A name \in Names :
            (\E k \in DOMAIN ParameterNames[CallableSource(factory)] :
                ParameterNames[CallableSource(factory)][k] = name) =>
                    ~has(Registry, name)

\* identifier i names itself (no alias stands in for it) and is backed by a
\* binding, not by an instance
BackedByBinding(i) ==
    /\ ~MapHas(aliases, i)
    /\ ~MapHas(instances, i)
    /\ MapHas(bindings, i)

\* identifier i names itself and is backed by an instance
BackedByInstance(i) == ~MapHas(aliases, i) /\ MapHas(instances, i)

\* C1, first get: get(i) on a singleton binding i returns, invokes the factory
\* of i exactly once, returns what it made, stores it in the instances map
\* under i and removes i from the bindings map; said of the factories that
\* depend on nothing the container holds
C1_FirstGet ==
    \A i \in Names :
        (/\ BackedByBinding(i)
         /\ bindings[i].singleton
         /\ Independent(bindings[i].factory)
         /\ GetOf(i)) =>
            /\ last'.status = "ok"
            /\ Occurrences(last'.invoked, i) = 1
            /\ MadeBy(last'.value, bindings[i].factory)
            /\ ~MapHas(bindings', i)
            /\ MapHas(instances', i)
            /\ instances'[i] = last'.value

\* C1, later gets: every get(i) on the instance returns the stored value and
\* invokes no factory; no get ever changes a stored instance
C1_LaterGet ==
    /\ \A i \in Names :
        (BackedByInstance(i) /\ last'.op = "get" /\ last'.id = i) =>
            /\ last'.status = "ok"
            /\ last'.value = instances[i]
            /\ last'.invoked = <<>>
            /\ bindings' = bindings
    /\ last'.op = "get" =>
            \A k \in DOMAIN instances : MapHas(instances', k) /\ instances'[k] = instances[k]

\* C1: after a singleton bindConstructor or bindFactory on a fresh identifier
\* i, the factory is invoked exactly once over any number of get(i) calls: the
\* first get(i) makes the value and moves i from bindings to instances, every
\* later get(i) returns that identical value
C1_SingletonOnce == [][C1_FirstGet /\ C1_LaterGet]_vars

\* C2: every get(i) on a non-singleton binding i returns, invokes the factory
\* once and returns what that call made, which is, when it is an object, one
\* that did not exist before; it stores nothing in the instances map and
\* leaves the binding in place; said of the factories that depend on nothing
\* the container holds
C2_BindingEveryTime ==
    [][\A i \in Names :
        (/\ MapHas(bindings, i)
         /\ ~bindings[i].singleton
         /\ Independent(bindings[i].factory)
         /\ GetOf(i)) =>
            /\ last'.status = "ok"
            /\ Occurrences(last'.invoked, i) = 1
            /\ MadeBy(last'.value, bindings[i].factory)
            /\ last'.value.n \notin Held
            /\ instances' = instances
            /\ MapHas(bindings', i)
            /\ bindings'[i] = bindings[i]]_vars

\* C3 as claimed: from any state, the get(i) after bindInstance(i, v) returns v
C3_AnyState ==
    [][(last.op = "bindInstance" /\ last'.op = "get" /\ last'.id = last.id) =>
            (last'.status = "ok" /\ last'.value = last.value)]_vars

\* C3 as amended: when i is not a key of the aliases map, bindInstance(i, v)
\* stores v under i, every get(i) returns the value stored under i, and no
\* call but a registration changes what is stored
C3_UnlessAliased ==
    [][/\ (last'.op = "bindInstance" /\ ~MapHas(aliases, last'.id)) =>
            \A i \in Names : last'.id = i => BackedByInstance(i)' /\ instances'[i] = last'.value
       /\ \A i \in Names :
            (BackedByInstance(i) /\ last'.op = "get" /\ last'.id = i) =>
                (last'.status = "ok" /\ last'.value = instances[i])
       /\ last'.op \in {"has", "get", "makeSingleton"} =>
            /\ aliases' = aliases
            /\ \A k \in DOMAIN instances :
                    MapHas(instances', k) /\ instances'[k] = instances[k]]_vars

\* get(i) has returned the value bindInstance stored under i, which is not an
\* alias, in a container that holds an alias and a binding as well
C3_Witness ==
    /\ last.op = "get"
    /\ last.status = "ok"
    /\ BackedByInstance(last.id)
    /\ last.value \in Instances
    /\ last.value = instances[last.id]
    /\ aliases # EmptyMap
    /\ bindings # EmptyMap

\* C4: for an identifier never registered has is false, get and makeSingleton
\* fail with UnknownIdentifier, and neither changes the three maps
C4_NeverRegistered ==
    \A i \in Names \ registered :
        /\ ~has(Registry, i)
        /\ get(Current, i, MaxDepth) = Outcome(Current, "UnknownIdentifier", Undefined)
        /\ makeSingletonStatus(i) = "UnknownIdentifier"
        /\ makeSingleton(i) = bindings

\* get has failed on an identifier never registered, in a container that holds
\* a binding, an instance and an alias
C4_Witness ==
    /\ last.op = "get"
    /\ last.status = "UnknownIdentifier"
    /\ last.id \notin registered
    /\ bindings # EmptyMap
    /\ instances # EmptyMap
    /\ aliases # EmptyMap

\* C5: from any state, the get(i) after bindFactory(i, f) or
\* bindConstructor(i, T) returns what f or T makes: what f returns for
\* bindFactory, a new object of T for bindConstructor; said of the f and T
\* that depend on nothing the container holds
C5_AnyState ==
    [][(/\ last.op \in {"bindFactory", "bindConstructor"}
        /\ Independent(last.callable)
        /\ GetOf(last.id)) =>
            /\ last'.status = "ok"
            /\ MadeBy(last'.value, last.callable)]_vars

\* C6: after alias(a, b) and then alias(b, c), a being a key of bindings or
\* instances, has(b) and has(c) hold, the aliases map holds b -> a and c -> a,
\* and b and c resolve to what a resolves to
C6_NestedAlias ==
    [][\A a, b, c \in Names :
        (/\ last.op = "alias" /\ last.id = a /\ last.arg = b
         /\ last.status = "ok"
         /\ MapHas(bindings, a) \/ MapHas(instances, a)
         /\ last'.op = "alias" /\ last'.id = b /\ last'.arg = c
         /\ last'.status = "ok") =>
            /\ has(Registry, b)'
            /\ has(Registry, c)'
            /\ aliases'[b] = a
            /\ aliases'[c] = a
            /\ resolveIdentifier(b)' = resolveIdentifier(a)'
            /\ resolveIdentifier(c)' = resolveIdentifier(a)']_vars

\* the step is a call of construct or invoke
Wires == last'.op \in {"construct", "invoke"}

\* the parameter names the callable of a factory declares: those of the first
\* explicit constructor for a class, those of the function itself otherwise
DeclaredNames(factory) ==
    IF factory.kind = "closure"
    THEN ParameterNames[ExplicitConstructor[factory.target]]
    ELSE ParameterNames[factory.target]

\* the positions of the declared names of the call
Declared == DOMAIN DeclaredNames(last'.callable)

\* the declared name at position k of the call
Name(k) == DeclaredNames(last'.callable)[k]

\* C7, the call: the argument of a declared name that is a key of the explicit
\* parameters is the explicit value; when every declared name is such a key no
\* factory is invoked and nothing is promoted
C7_Call ==
    (Wires /\ last'.status = "ok") =>
        /\ LastCall(last').callable.target = last'.callable.target
        /\ Len(Passed) = Len(DeclaredNames(last'.callable))
        /\ \A k \in Declared :
                MapHas(last'.params, Name(k)) =>
                    Passed[k] = last'.params[Name(k)]
        /\ (\A k \in Declared : MapHas(last'.params, Name(k))) =>
                /\ last'.invoked = <<>>
                /\ bindings' = bindings
                /\ instances' = instances

\* C7, the resolution of one name: for a key x of the explicit parameters
\* resolveParameter returns parameters[x] and leaves the container as it is
C7_Resolution ==
    \A parameters \in ParameterMaps : \A x \in DOMAIN parameters :
        resolveParameter(Current, x, parameters, MaxDepth) = Outcome(Current, "ok", parameters[x])

\* C7: in construct and invoke a declared parameter name x that is a key of
\* the explicit parameters gets parameters[x], also when the container has x
\* and also when parameters[x] is undefined; the container is not consulted
\* for x: no factory is invoked for it and nothing is promoted
C7_ExplicitWins == [][C7_Call /\ C7_Resolution]_vars

\* invoke has passed the explicit undefined for "a" while the container binds
\* "a" to a singleton constructor, which is still a binding
C7_Witness ==
    /\ last.op = "invoke"
    /\ last.status = "ok"
    /\ last.callable.target = "fa"
    /\ MapHas(last.params, "a")
    /\ last.params["a"] = Undefined
    /\ Arguments(last) = <<Undefined>>
    /\ last.value = Lit("undefinedb")
    /\ MapHas(bindings, "a")
    /\ bindings["a"].singleton
    /\ ~MapHas(instances, "a")

\* value is what container.get(name) yields in the current state: the stored
\* instance, or else what the factory of the binding makes, its own declared
\* names wired from the container in turn: an object of the class, whose fields
\* are wired, or what the function returns for what the container gives
RECURSIVE Wired(_, _)
Wired(value, name) ==
    LET id == resolveIdentifier(name)
    IN  IF MapHas(instances, id) THEN value = instances[id]
        ELSE /\ MapHas(bindings, id)
             /\ LET factory == bindings[id].factory
                    names == DeclaredNames(factory)
                IN  IF factory.kind = "closure"
                    THEN /\ value.kind = "object"
                         /\ value.by = factory.target
                         /\ Len(value.args) <= Len(names)
                         /\ \A k \in DOMAIN value.args :
                                has(Registry, names[k]) => Wired(value.args[k], names[k])
                    ELSE value = Body(factory.target,
                                      [k \in DOMAIN names |->
                                        resolveParameter(Current, names[k], EmptyMap, MaxDepth).value],
                                      value.n)

\* C8: construct and invoke pass, for every declared parameter name x that is
\* not a key of the explicit parameters and that the container has,
\* container.get(x), in the order of the declaration, the dependencies of x
\* wired the same way
C8_WiredFromContainer ==
    [][(Wires /\ last'.status = "ok") =>
            \A k \in Declared :
                (~MapHas(last'.params, Name(k)) /\ has(Registry, Name(k))) =>
                    Wired(Passed[k], Name(k))]_vars

\* C9: a declared parameter name that is neither a key of the explicit
\* parameters nor registered in the container gets undefined; when every
\* declared name is such a name the call does not raise and leaves the maps of
\* the container unchanged
C9_AbsentIsUndefined ==
    [][Wires =>
        /\ last'.status = "ok" =>
            \A k \in Declared :
                (~MapHas(last'.params, Name(k)) /\ ~has(Registry, Name(k))) =>
                    Passed[k] = Undefined
        /\ (\A k \in Declared : ~MapHas(last'.params, Name(k)) /\ ~has(Registry, Name(k))) =>
                /\ last'.status = "ok"
                /\ bindings' = bindings
                /\ instances' = instances
                /\ aliases' = aliases]_vars

\* C10, makeSingleton: on an identifier backed by a non-singleton binding it
\* sets the singleton flag of that binding and does nothing else: no factory
\* is invoked, nothing is stored
C10_Flag ==
    \A i \in Names :
        LET k == resolveIdentifier(i)
        IN  (/\ last'.op = "makeSingleton"
             /\ last'.id = i
             /\ MapHas(bindings, k)
             /\ ~MapHas(instances, k)
             /\ ~bindings[k].singleton) =>
                /\ last'.status = "ok"
                /\ last'.invoked = <<>>
                /\ bindings' = [bindings EXCEPT ![k].singleton = TRUE]
                /\ instances' = instances

\* C10, the next get(i): it returns, invokes the factory once and caches what
\* it made; said of the factories that depend on nothing the container holds
C10_NextGet ==
    \A i \in Names :
        LET k == resolveIdentifier(i)
        IN  (/\ last.op = "makeSingleton"
             /\ last.id = i
             /\ last.status = "ok"
             /\ MapHas(bindings, k)
             /\ ~MapHas(instances, k)
             /\ Independent(bindings[k].factory)
             /\ GetOf(i)) =>
                /\ last'.status = "ok"
                /\ Occurrences(last'.invoked, k) = 1
                /\ MadeBy(last'.value, bindings[k].factory)
                /\ ~MapHas(bindings', k)
                /\ MapHas(instances', k)
                /\ instances'[k] = last'.value

\* C10, every later get(i): the same value, and no factory invoked
C10_LaterGet ==
    \A i \in Names :
        (/\ last.op = "get"
         /\ last.id = i
         /\ last.status = "ok"
         /\ MapHas(instances, resolveIdentifier(i))
         /\ last'.op = "get"
         /\ last'.id = i) =>
            /\ last'.status = "ok"
            /\ last'.value = last.value
            /\ last'.invoked = <<>>

\* C10: makeSingleton(i) on a non-singleton binding sets its singleton flag
\* without invoking the factory; the next get(i) invokes it once and caches the
\* value; every later get(i) returns that value and invokes nothing
C10_MakeSingleton == [][C10_Flag /\ C10_NextGet /\ C10_LaterGet]_vars

\* what a caller sees of a call: how it ended and what it returned
Seen(r) == <<r.status, r.value>>

\* C11: makeSingleton(i) on an identifier whose resolved key has an entry in
\* the instances map does not fail, leaves bindings, instances and aliases as
\* they were, and get(i) returns after it what it returned before it
C11_InstanceNoOp ==
    [][\A i \in Names :
        (/\ last'.op = "makeSingleton"
         /\ last'.id = i
         /\ MapHas(instances, resolveIdentifier(i))) =>
            /\ last'.status = "ok"
            /\ bindings' = bindings
            /\ instances' = instances
            /\ aliases' = aliases
            /\ Seen(get(Current, i, MaxDepth))' = Seen(get(Current, i, MaxDepth))
            /\ Seen(get(Current, i, MaxDepth)) = <<"ok", instances[resolveIdentifier(i)]>>]_vars

\* makeSingleton has returned on an alias of an identifier that has an instance
\* and, under it, a binding that is no singleton
C11_Witness ==
    /\ last.op = "makeSingleton"
    /\ last.status = "ok"
    /\ MapHas(aliases, last.id)
    /\ resolveIdentifier(last.id) # last.id
    /\ MapHas(instances, resolveIdentifier(last.id))
    /\ MapHas(bindings, resolveIdentifier(last.id))
    /\ ~bindings[resolveIdentifier(last.id)].singleton

\* the callable whose text gives the parameter names of a call: signature ?? func
SignatureOf(call) == IF call.signature = Null THEN call.callable ELSE call.signature

\* how often the call has called the callable
CallsOf(call, callable) ==
    Cardinality({k \in DOMAIN call.passed : call.passed[k].callable = callable})

\* how often the call has invoked the callable as the factory of a binding
InvocationsOf(call, callable) ==
    Cardinality({k \in DOMAIN call.invoked :
                    bindings[call.invoked[k]].factory = callable})

\* C12: an invoke that returns has called the callable, as the last of its
\* calls and once beside the calls it got as the factory of a binding it
\* resolved, returns what the body of the callable returns for the
\* arguments of that call, and has passed it one argument for each parameter
\* name of the signature if one is given, of the callable otherwise; with a
\* signature the arguments are the ones the signature itself would be invoked
\* with
C12_InvokeBySignature ==
    [][(last'.op = "invoke" /\ last'.status = "ok") =>
            LET names == DeclaredNames(SignatureOf(last'))
            IN  /\ last'.passed # <<>>
                /\ LastCall(last').callable = last'.callable
                /\ CallsOf(last', last'.callable)
                        = InvocationsOf(last', last'.callable) + 1
                /\ last'.value = Body(last'.callable.target, Passed, last'.value.n)
                /\ last'.value.kind = "result" => last'.value.n \notin Held
                /\ Len(Passed) = Len(names)
                /\ \A k \in DOMAIN names :
                        Passed[k] =
                            resolveParameter(Current, names[k], last'.params, MaxDepth).value
                /\ last'.signature # Null =>
                        Passed =
                            LastCall(invoke(Current, last'.signature, last'.params,
                                            Null, MaxDepth).st).args]_vars

\* the bound function, whose own text names no parameter, has been invoked with
\* the original function as signature and has received the instance bound to a
C12_Witness ==
    /\ last.op = "invoke"
    /\ last.status = "ok"
    /\ last.callable = UserFactory("bfa")
    /\ last.signature = UserFactory("fa")
    /\ last.params = EmptyMap
    /\ MapHas(instances, "a")
    /\ Arguments(last) = <<instances["a"]>>
    /\ last.value = Lit(ToStr(instances["a"]) \o "b")

\* the callables whose text matches none of the shapes extractParameterNames
\* knows
Unmatched == {target \in Callables : ~ParameterMatch(toString(target))[1]}

NoMatch(target) == target \in Unmatched

\* C13, construct and invoke: on a callable whose text matches no shape they
\* do not raise, call it with no argument, return its result and leave the
\* container as it was
C13_Call ==
    (Wires /\ NoMatch(CallableSource(SignatureOf(last')))) =>
        /\ last'.status = "ok"
        /\ MadeBy(last'.value, last'.callable)
        /\ Len(last'.passed) = 1
        /\ LastCall(last').callable.target = last'.callable.target
        /\ Passed = <<>>
        /\ last'.invoked = <<>>
        /\ bindings' = bindings
        /\ instances' = instances

\* C13, get: on a binding of such a callable it does not raise and returns
\* what the callable makes of no argument
C13_Get ==
    \A i \in Names :
        (/\ last'.op = "get"
         /\ last'.id = i
         /\ BackedByBinding(i)
         /\ NoMatch(CallableSource(bindings[i].factory))) =>
            /\ last'.status = "ok"
            /\ MadeBy(last'.value, bindings[i].factory)
            /\ LastCall(last').callable.target = bindings[i].factory.target
            /\ Passed = <<>>
            /\ Occurrences(last'.invoked, i) = 1

\* C13: when the text of a callable or constructor matches none of the shapes
\* extractParameterNames knows, no error is raised, the parameter list is
\* empty, and construct, invoke and get call it with no argument and return
\* its result
C13_NoMatchNoArguments ==
    [][/\ C13_Call
       /\ C13_Get
       /\ \A target \in Classes \cup TextClasses \cup Functions \cup TextFunctions :
            NoMatch(target) => ParameterNames[target] = <<>>]_vars

\* get has returned what a factory without a readable parameter list made, in
\* a container that has an instance under the empty name
C13_Witness ==
    /\ last.op = "get"
    /\ last.status = "ok"
    /\ last.passed # <<>>
    /\ LastCall(last) = [callable |-> UserFactory("fn"), args |-> <<>>]
    /\ last.value = Lit("a")
    /\ MapHas(instances, "")

\* C14: in every reachable state no target stored in the aliases map is itself
\* a key of the aliases map
C14_AliasesCollapsed ==
    \A k \in DOMAIN aliases : ~MapHas(aliases, aliases[k])

\* the identifier at the end of the alias chain of i, when the chain has an end
ChainEnds(i) == AliasTarget(i, {})[1]

Root(i) == AliasTarget(i, {})[2]

\* C15: get(i) on an alias i whose chain ends on a registered identifier
\* returns what is registered under that identifier: its instance, or else what
\* the factory of its binding makes, however the chain was built
C15_GetThroughChain ==
    [][\A i \in Names :
        (/\ last'.op = "get"
         /\ last'.id = i
         /\ MapHas(aliases, i)
         /\ ChainEnds(i)) =>
            /\ MapHas(instances, Root(i)) =>
                    (last'.status = "ok" /\ last'.value = instances[Root(i)])
            /\ (~MapHas(instances, Root(i)) /\ MapHas(bindings, Root(i))) =>
                    /\ last'.status # "TypeError"
                    /\ last'.status = "ok" =>
                            MadeBy(last'.value, bindings[Root(i)].factory)]_vars

\* C16: every call of alias returns, whatever the identifier, the alias name
\* and the aliases made before
C16_AliasReturns ==
    last.op = "alias" => last.status = "ok"

\* C17: when has(i) is true get(i) returns a value and makeSingleton(i)
\* completes without error, also when i is an alias of an identifier that was
\* never registered; a factory that depends on itself counts as one that throws
C17_KnownNeverFails ==
    [][\A i \in Names :
        (/\ last'.op \in {"get", "makeSingleton"}
         /\ last'.id = i
         /\ has(Registry, i)
         /\ last'.status # "RangeError") =>
            last'.status = "ok"]_vars

\* C18 as claimed: no identifier is a key of both the bindings map and the
\* instances map, and a key of the instances map never becomes a key of the
\* bindings map again
C18_Exclusive ==
    [][/\ DOMAIN bindings' \cap DOMAIN instances' = {}
       /\ \A i \in DOMAIN instances : MapHas(bindings, i) = MapHas(bindings', i)]_vars

\* C18 as amended: only bindConstructor and bindFactory add a key to the
\* bindings map, only a registration makes an identifier a key of both maps,
\* and a key enters the instances map otherwise only by leaving the bindings
\* map; no key ever leaves the instances map
C18_ExclusiveButForRegistration ==
    [][/\ last'.op \notin {"bindConstructor", "bindFactory"} =>
            DOMAIN bindings' \subseteq DOMAIN bindings
       /\ last'.op \notin {"bindInstance", "bindConstructor", "bindFactory"} =>
            DOMAIN bindings' \cap DOMAIN instances' \subseteq
                DOMAIN bindings \cap DOMAIN instances
       /\ last'.op # "bindInstance" =>
            \A i \in DOMAIN instances' \ DOMAIN instances :
                MapHas(bindings, i) /\ ~MapHas(bindings', i)
       /\ DOMAIN instances \subseteq DOMAIN instances']_vars

\* a get has promoted a singleton binding: its identifier has left the
\* bindings map and entered the instances map
C18_Witness ==
    /\ last.op = "get"
    /\ last.status = "ok"
    /\ last.invoked # <<>>
    /\ MapHas(instances, resolveIdentifier(last.id))
    /\ ~MapHas(bindings, resolveIdentifier(last.id))
    /\ instances[resolveIdentifier(last.id)] = last.value
    /\ DOMAIN bindings \cap DOMAIN instances = {}
    /\ bindings # EmptyMap

\* C19 as claimed: once the instances map holds a value for i, no operation
\* changes it
C19_Immutable ==
    [][\A i \in DOMAIN instances :
            MapHas(instances', i) /\ instances'[i] = instances[i]]_vars

\* C19 as amended: once the instances map holds a value for i, no operation
\* but a bindInstance on i changes it, and every get that reads the instance
\* of i returns it
C19_ImmutableButForBindInstance ==
    [][/\ \A i \in DOMAIN instances :
            ~(last'.op = "bindInstance" /\ last'.id = i) =>
                (MapHas(instances', i) /\ instances'[i] = instances[i])
       /\ \A i \in Names :
            (/\ last'.op = "get"
             /\ last'.id = i
             /\ MapHas(instances, resolveIdentifier(i))) =>
                (last'.status = "ok" /\ last'.value = instances[resolveIdentifier(i)])]_vars

\* a get through an alias has read a promoted instance again, after another
\* registration
C19_Witness ==
    /\ last.op = "get"
    /\ last.status = "ok"
    /\ last.invoked = <<>>
    /\ MapHas(aliases, last.id)
    /\ resolveIdentifier(last.id) # last.id
    /\ MapHas(instances, resolveIdentifier(last.id))
    /\ last.value = instances[resolveIdentifier(last.id)]
    /\ last.value.kind \in {"object", "result"}
    /\ registrations = 3

\* the identifiers has is true of
Known == LET st == Registry IN {i \in Names : has(st, i)}

\* C20: once has(i) is true it stays true
C20_NeverLost == [][Known \subseteq Known']_vars

\* a get has promoted a singleton binding under an alias: the binding is gone,
\* and has still holds of the identifier and of its alias
C20_Witness ==
    /\ last.op = "get"
    /\ last.status = "ok"
    /\ last.invoked # <<>>
    /\ MapHas(aliases, last.id)
    /\ resolveIdentifier(last.id) # last.id
    /\ ~MapHas(bindings, resolveIdentifier(last.id))
    /\ has(Registry, resolveIdentifier(last.id))
    /\ has(Registry, last.id)

\* C21, get: a get through an alias a of a singleton binding i does not fail
\* on the alias; when it returns it has invoked the factory of i once, stored
\* the value under i and not under a, and removed the binding of i
C21_GetByAlias ==
    \A a, i \in Names :
        (/\ MapHas(aliases, a)
         /\ aliases[a] = i
         /\ a # i
         /\ BackedByBinding(i)
         /\ bindings[i].singleton
         /\ last'.op = "get"
         /\ last'.id = a) =>
            /\ last'.status # "TypeError"
            /\ last'.status = "ok" =>
                /\ Occurrences(last'.invoked, i) = 1
                /\ MadeBy(last'.value, bindings[i].factory)
                /\ MapHas(instances', i)
                /\ instances'[i] = last'.value
                /\ ~MapHas(bindings', i)
                /\ MapHas(instances', a) = MapHas(instances, a)

\* C21, later gets: once the instance is stored under i, get(i) and get(a)
\* return it and invoke nothing
C21_LaterGets ==
    \A a, i \in Names :
        (/\ MapHas(aliases, a)
         /\ aliases[a] = i
         /\ BackedByInstance(i)
         /\ last'.op = "get"
         /\ last'.id \in {a, i}) =>
            /\ last'.status = "ok"
            /\ last'.value = instances[i]
            /\ last'.invoked = <<>>

\* C21, makeSingleton: makeSingleton(a) sets the singleton flag of the binding
\* stored under i
C21_MakeSingletonByAlias ==
    \A a, i \in Names :
        (/\ MapHas(aliases, a)
         /\ aliases[a] = i
         /\ BackedByBinding(i)
         /\ last'.op = "makeSingleton"
         /\ last'.id = a) =>
            /\ last'.status = "ok"
            /\ MapHas(bindings', i)
            /\ bindings'[i].singleton

\* C21: a singleton binding i and an alias a of i share the singleton: any
\* interleaving of get(i) and get(a) invokes the factory once, stores the
\* instance under i, and every call returns that value; makeSingleton(a) sets
\* the singleton flag of the binding stored under i
C21_SharedSingleton ==
    [][C21_GetByAlias /\ C21_LaterGets /\ C21_MakeSingletonByAlias]_vars

\* C22: the explicit parameters of construct and invoke do not reach the
\* dependencies: an argument resolved through the container is what get yields
\* for its name, and where the callable bound under that name declares a name
\* x of its own, its argument for x is what the container alone gives for x,
\* also when x is a key of the explicit parameters of the call
C22_NotPropagated ==
    [][(Wires /\ last'.status = "ok") =>
        \A k \in Declared :
            (/\ ~MapHas(last'.params, Name(k))
             /\ Name(k) \notin ObjectPrototypeKeys
             /\ has(Registry, Name(k))) =>
                /\ Passed[k] = get(Current, Name(k), MaxDepth).value
                /\ BackedByBinding(Name(k)) =>
                    LET names == DeclaredNames(bindings[Name(k)].factory)
                    IN  \A j \in DOMAIN Passed[k].args :
                            Passed[k].args[j] =
                                resolveParameter(Current, names[j], EmptyMap, MaxDepth).value]_vars

\* construct(C, {a: W}) has made its b from the binding of B, and that B has
\* received the instance the container holds for a, not W
C22_Witness ==
    /\ last.op = "construct"
    /\ last.status = "ok"
    /\ last.callable.target = "C"
    /\ MapHas(last.params, "a")
    /\ last.params["a"] = Lit("W")
    /\ last.value.args = Arguments(last)
    /\ last.value.args[1].by = "B"
    /\ MapHas(instances, "a")
    /\ instances["a"] = Lit("V")
    /\ last.value.args[1].args = <<Lit("V")>>

\* C23: for a callable that declares no parameter the extracted sequence of
\* names is empty, so invoke and construct pass no argument and do not consult
\* the container: no factory is invoked and no map changes
C23_NoParameterNoLookup ==
    [][(Wires /\ DeclaresNoParameter(CallableSource(SignatureOf(last')))) =>
            /\ ParameterNames[CallableSource(SignatureOf(last'))] = <<>>
            /\ last'.status = "ok"
            /\ Passed = <<>>
            /\ last'.invoked = <<>>
            /\ bindings' = bindings
            /\ instances' = instances]_vars

RECURSIVE AncestorChain(_)
\* a class, its superclass, the superclass of that, and so on
AncestorChain(T) ==
    IF T = FunctionPrototype THEN <<>>
    ELSE <<T>> \o AncestorChain(getPrototypeOf(T))

\* the classes whose text holds what the container takes for a constructor
WithConstructor ==
    {T \in Classes \cup TextClasses : HasExplicitConstructor(toString(T))}

\* the positions in the chain of T of the classes that declare a constructor
ExplicitConstructors(T) ==
    {k \in DOMAIN AncestorChain(T) : AncestorChain(T)[k] \in WithConstructor}

\* the parameter names of the first explicit constructor in the chain of T, none
\* when no class of the chain declares a constructor
ConstructorNames(T) ==
    IF ExplicitConstructors(T) = {} THEN <<>>
    ELSE ParameterNames[AncestorChain(T)[Min(ExplicitConstructors(T))]]

\* C24: construct(T) resolves the parameter names of the first explicit
\* constructor in the chain of T; when there is none it does not raise, passes
\* no argument, invokes no factory and changes no map, whatever else T declares
C24_FirstExplicitConstructor ==
    [][last'.op = "construct" =>
        LET T == last'.callable.target
            names == ConstructorNames(T)
        IN  /\ last'.status = "ok" =>
                /\ LastCall(last').callable = ClassOf(T)
                /\ Len(Passed) = Len(names)
                /\ \A k \in DOMAIN names :
                        Passed[k] =
                            resolveParameter(Current, names[k], last'.params, MaxDepth).value
            /\ ExplicitConstructors(T) = {} =>
                /\ last'.status = "ok"
                /\ last'.invoked = <<>>
                /\ bindings' = bindings
                /\ instances' = instances]_vars

\* map after is map before but for what it holds under key
SameElsewhere(before, after, key) ==
    \A x \in Names \ {key} :
        /\ MapHas(after, x) = MapHas(before, x)
        /\ MapHas(before, x) => after[x] = before[x]

\* the two maps changed by singleton promotion only: every key new in the
\* instances map was a singleton binding whose factory was invoked and has left
\* the bindings map, and nothing else was added, removed or changed
PromotionOnly(b, i, after, invoked) ==
    LET promoted == DOMAIN after.instances \ DOMAIN i
    IN  /\ \A k \in DOMAIN i : MapHas(after.instances, k) /\ after.instances[k] = i[k]
        /\ \A k \in promoted :
                /\ MapHas(b, k)
                /\ b[k].singleton
                /\ Occurrences(invoked, k) = 1
        /\ after.bindings = [k \in DOMAIN b \ promoted |-> b[k]]

\* C25, the registry: what each public method writes
C25_Registry ==
    /\ last'.op = "bindInstance" =>
            /\ SameElsewhere(instances, instances', last'.id)
            /\ instances'[last'.id] = last'.value
            /\ bindings' = bindings
            /\ aliases' = aliases
    /\ last'.op \in {"bindConstructor", "bindFactory"} =>
            /\ SameElsewhere(bindings, bindings', last'.id)
            /\ bindings'[last'.id] = Binding(last'.callable, last'.singleton)
            /\ instances' = instances
            /\ aliases' = aliases
    /\ last'.op = "alias" =>
            /\ SameElsewhere(aliases, aliases', last'.arg)
            /\ bindings' = bindings
            /\ instances' = instances
    /\ last'.op = "makeSingleton" =>
            /\ DOMAIN bindings' = DOMAIN bindings
            /\ Cardinality({k \in DOMAIN bindings : bindings'[k] # bindings[k]}) <= 1
            /\ \A k \in DOMAIN bindings :
                    /\ bindings'[k].factory = bindings[k].factory
                    /\ bindings[k].singleton => bindings'[k].singleton
            /\ instances' = instances
            /\ aliases' = aliases
    /\ last'.op = "has" =>
            /\ bindings' = bindings
            /\ instances' = instances
            /\ aliases' = aliases
    /\ last'.op = "get" =>
            /\ PromotionOnly(bindings, instances,
                             [bindings |-> bindings', instances |-> instances'],
                             last'.invoked)
            /\ aliases' = aliases

\* C25, construct and invoke: constructing a class or invoking a function
\* changes the maps by promotion only; looked at in every state of the
\* container, at the calls of has(""), which leave the container as it is
C25_Wiring ==
    (last'.op = "has" /\ last'.id = "") =>
        /\ \A constructor \in Classes :
                LET r == construct(Current, constructor, EmptyMap, MaxDepth)
                IN  PromotionOnly(bindings, instances, r.st, r.st.invoked)
        /\ \A func \in Functions :
                LET r == invoke(Current, UserFactory(func), EmptyMap, Null, MaxDepth)
                IN  PromotionOnly(bindings, instances, r.st, r.st.invoked)

\* C25: bindInstance(i, v) changes only instances[i], bindConstructor and
\* bindFactory only bindings[i], alias(id, a) only aliases[a], makeSingleton at
\* most the singleton flag of one binding, has nothing; get, construct and
\* invoke change bindings and instances by singleton promotion only and never
\* the aliases map
C25_Frame == [][C25_Registry /\ C25_Wiring]_vars

\* a get has promoted the singleton binding it was called for and the singleton
\* binding that one depends on, next to an instance it left alone
C25_Witness ==
    /\ last.op = "get"
    /\ last.status = "ok"
    /\ Len(last.invoked) = 2
    /\ Cardinality(DOMAIN instances) = 3
    /\ bindings = EmptyMap

\* identifier i is a key of the aliases map, with a target other than itself,
\* and a key of the bindings or the instances map as well
Shadowed(i) ==
    /\ MapHas(aliases, i)
    /\ aliases[i] # i
    /\ MapHas(bindings, i) \/ MapHas(instances, i)

\* C26, get: on such an identifier get acts on the alias target: it returns
\* the instance of the target, or else what the binding of the target makes,
\* and does not return when the target has neither
C26_GetTarget ==
    \A i \in Names :
        (Shadowed(i) /\ last'.op = "get" /\ last'.id = i) =>
            LET target == aliases[i]
            IN  /\ MapHas(instances, target) =>
                    (last'.status = "ok" /\ last'.value = instances[target])
                /\ (~MapHas(instances, target) /\ MapHas(bindings, target)
                        /\ last'.status = "ok") =>
                    /\ MadeBy(last'.value, bindings[target].factory)
                    /\ last'.invoked # <<>>
                    /\ last'.invoked[Len(last'.invoked)] = target
                /\ (~MapHas(instances, target) /\ ~MapHas(bindings, target)) =>
                    last'.status # "ok"

\* C26, makeSingleton: on such an identifier makeSingleton acts on the binding
\* of the alias target and leaves the binding stored under i as it is
C26_MakeSingletonTarget ==
    \A i \in Names :
        (Shadowed(i) /\ last'.op = "makeSingleton" /\ last'.id = i) =>
            LET target == aliases[i]
            IN  /\ (~MapHas(instances, target) /\ MapHas(bindings, target)) =>
                    (last'.status = "ok" /\ bindings'[target].singleton)
                /\ MapHas(bindings, i) => bindings'[i] = bindings[i]
                /\ (~MapHas(instances, target) /\ ~MapHas(bindings, target)) =>
                    last'.status # "ok"

\* C26: for a name that is an alias key and also a key of bindings or
\* instances, get(i) and makeSingleton(i) act on the alias target of i and never
\* on the binding or instance stored under i, in whatever order the alias and
\* the binding or instance were registered
C26_AliasFirst == [][C26_GetTarget /\ C26_MakeSingletonTarget]_vars

====
